---- MODULE Spec2Model ----
(***************************************************************************)
(* Model of the app-autofill content script (the fill engine): the edit    *)
(* listeners, descriptor extraction, key matching, profile resolution,     *)
(* the value writer, the fill pass, the debounced scheduler and the        *)
(* mutation watcher.                                                       *)
(*                                                                         *)
(* Strings are sequences of one-character strings, so that normalisation,  *)
(* substring tests and date parsing are computed, not assumed.             *)
(* JavaScript values are tagged records: [t |-> "undefined"],              *)
(* [t |-> "null"], [t |-> "string", s |-> chars], [t |-> "boolean", b],    *)
(* [t |-> "array", a |-> <<values>>], [t |-> "object", f |-> record].      *)
(***************************************************************************)
EXTENDS Integers, Sequences, FiniteSets, TLC

VARIABLES
    page,        \* which document the content script is injected into
    attached,    \* the nodes of the page currently in the document
    value,       \* el.value of every node
    checked,     \* el.checked of every node
    userEdited,  \* el.dataset.userEdited === "1"
    autofilled,  \* el.dataset.autofilled: "unset" or "" (set by the listeners)
    outline,     \* el.style.outline is the highlight
    observer,    \* the module-level observer: 0 is null, else the request that armed it
    timers,      \* pending window.setTimeout callbacks, in firing order
    closures,    \* per scheduleFill call: the profile it captured and its variable t
    nextTimer,   \* the next timer id window.setTimeout returns
    nReq,        \* number of FILL_EXECUTE messages received
    nOther,      \* history: number of messages of another type received
    sent,        \* history: messages passed to chrome.runtime.sendMessage
    pass,        \* history: what the most recent fill pass did
    nPasses,     \* history: number of fill passes started
    nEdits,      \* history: number of human edits
    nBatches,    \* history: number of mutation batches
    quiet,       \* history: no human edit and no DOM change since the last pass
    initialDone, \* history: the current request's first pass has run
    bursts,      \* history: bursts of add-batches since that first pass
    burstLen,    \* history: add-batches in the current burst
    extra,       \* history: passes of the current request after its first
    lastBatch,   \* history: the kind of batch, if the latest request, pass or batch was one
    fnIn,        \* input drawn for a pure function
    fnOut        \* what the function returned for it

vars == << page, attached, value, checked, userEdited, autofilled, outline,
           observer, timers, closures, nextTimer, nReq, nOther, sent, pass,
           nPasses, nEdits, nBatches, quiet, initialDone, bursts, burstLen,
           extra, lastBatch, fnIn, fnOut >>

(***************************************************************************)
(* Strings                                                                 *)
(***************************************************************************)
UpperCase == << "A","B","C","D","E","F","G","H","I","J","K","L","M",
                "N","O","P","Q","R","S","T","U","V","W","X","Y","Z" >>
LowerCase == << "a","b","c","d","e","f","g","h","i","j","k","l","m",
                "n","o","p","q","r","s","t","u","v","w","x","y","z" >>

LowerOf ==
    [c \in {UpperCase[i] : i \in 1..26} |->
        LowerCase[CHOOSE i \in 1..26 : UpperCase[i] = c]]

toLowerChar(c) == IF c \in DOMAIN LowerOf THEN LowerOf[c] ELSE c

toLowerCase(s) == [i \in 1..Len(s) |-> toLowerChar(s[i])]

IsSpace(c) == c \in {" ", "\t", "\n"}

RECURSIVE DropSpaces(_)
DropSpaces(s) ==
    IF s # <<>> /\ IsSpace(s[1]) THEN DropSpaces(Tail(s)) ELSE s

\* s.replace(/\s+/g, " ")
RECURSIVE collapseSpaces(_)
collapseSpaces(s) ==
    IF s = <<>> THEN <<>>
    ELSE IF IsSpace(s[1]) THEN <<" ">> \o collapseSpaces(DropSpaces(s))
    ELSE <<s[1]>> \o collapseSpaces(Tail(s))

RECURSIVE DropTrailingSpaces(_)
DropTrailingSpaces(s) ==
    IF s # <<>> /\ IsSpace(s[Len(s)])
    THEN DropTrailingSpaces(SubSeq(s, 1, Len(s) - 1)) ELSE s

trim(s) == DropTrailingSpaces(DropSpaces(s))

\* h.includes(n)
includes(h, n) ==
    \E i \in 0..(Len(h) - Len(n)) : SubSeq(h, i + 1, i + Len(n)) = n

\* parts.join(sep) for a sequence of strings
RECURSIVE join(_, _)
join(parts, sep) ==
    IF parts = <<>> THEN <<>>
    ELSE IF Len(parts) = 1 THEN parts[1]
    ELSE parts[1] \o sep \o join(Tail(parts), sep)

\* arr.filter(Boolean) for a sequence of strings
RECURSIVE nonEmpty(_)
nonEmpty(parts) ==
    IF parts = <<>> THEN <<>>
    ELSE IF parts[1] = <<>> THEN nonEmpty(Tail(parts))
    ELSE <<parts[1]>> \o nonEmpty(Tail(parts))

IsDigit(c) == c \in {"0","1","2","3","4","5","6","7","8","9"}
Digits == << "0","1","2","3","4","5","6","7","8","9" >>
DigitValOf == [c \in {Digits[i] : i \in 1..10} |-> (CHOOSE i \in 1..10 : Digits[i] = c) - 1]
DigitVal(c) == DigitValOf[c]

\* Number(s) for a string of digits
RECURSIVE Number(_)
Number(s) ==
    IF s = <<>> THEN 0
    ELSE 10 * Number(SubSeq(s, 1, Len(s) - 1)) + DigitVal(s[Len(s)])

(***************************************************************************)
(* JavaScript values                                                       *)
(***************************************************************************)
Undef == [t |-> "undefined"]
Null == [t |-> "null"]
Str(s) == [t |-> "string", s |-> s]
Bool(b) == [t |-> "boolean", b |-> b]
Arr(a) == [t |-> "array", a |-> a]
Obj(f) == [t |-> "object", f |-> f]
\* the outcome of an expression that raises a TypeError
Throw == [t |-> "throw"]

IsNullish(v) == v.t \in {"undefined", "null"}

\* v ?? d
Coalesce(v, d) == IF IsNullish(v) THEN d ELSE v

\* !!v
Truthy(v) ==
    CASE v.t \in {"undefined", "null"} -> FALSE
      [] v.t = "string" -> v.s # <<>>
      [] v.t = "boolean" -> v.b
      [] OTHER -> TRUE

\* String(v)
RECURSIVE ToStr(_)
ToStr(v) ==
    CASE v.t = "undefined" -> <<"u","n","d","e","f","i","n","e","d">>
      [] v.t = "null" -> <<"n","u","l","l">>
      [] v.t = "string" -> v.s
      [] v.t = "boolean" ->
            IF v.b THEN <<"t","r","u","e">> ELSE <<"f","a","l","s","e">>
      [] v.t = "array" ->
            \* Array.prototype.toString: join(","), null and undefined as ""
            join([i \in 1..Len(v.a) |->
                    IF IsNullish(v.a[i]) THEN <<>> ELSE ToStr(v.a[i])],
                 <<",">>)
      [] OTHER ->
            <<"[","o","b","j","e","c","t"," ","O","b","j","e","c","t","]">>

\* o?.[k] for a property name k: own fields of an object; none of the names
\* used is a property of an array, a string or a boolean
Prop(o, k) ==
    IF o.t = "object" /\ k \in DOMAIN o.f THEN o.f[k] ELSE Undef

\* (s ?? "").toLowerCase().replace(/\s+/g, " ").trim() for a string or nullish
norm(s) == trim(collapseSpaces(toLowerCase(s)))

(***************************************************************************)
(* Profile Resolver: get(obj, path). A path is the sequence of the         *)
(* segments of the dot-separated key, <<"basics", "firstName">> for        *)
(* "basics.firstName".                                                     *)
(***************************************************************************)
NEGATIVE_INFINITY == -100000000
POSITIVE_INFINITY == 100000000

\* /present/i.test(v): the argument is converted with String()
testPresent(v) ==
    includes(toLowerCase(ToStr(v)), <<"p","r","e","s","e","n","t">>)

\* first and last joined without dropping an empty one
fullName_noFilter(obj) ==
    LET first == trim(ToStr(Coalesce(Prop(Prop(obj, "basics"), "firstName"), Str(<<>>))))
        last == trim(ToStr(Coalesce(Prop(Prop(obj, "basics"), "lastName"), Str(<<>>))))
        full == join(<<first, last>>, <<" ">>)
    IN  IF full # <<>> THEN Str(full) ELSE Undef

fullName(obj) ==
    LET first == trim(ToStr(Coalesce(Prop(Prop(obj, "basics"), "firstName"), Str(<<>>))))
        last == trim(ToStr(Coalesce(Prop(Prop(obj, "basics"), "lastName"), Str(<<>>))))
        full == join(nonEmpty(<<first, last>>), <<" ">>)
    IN  IF full # <<>> THEN Str(full) ELSE Undef

\* rx.test(l?.label ?? "") for the three link patterns, all case-insensitive
linkTest(rx, l) ==
    LET lbl == toLowerCase(ToStr(Coalesce(Prop(l, "label"), Str(<<>>))))
    IN  \E alt \in rx : includes(lbl, alt)

\* obj?.links?.find(l => rx.test(l?.label ?? ""))?.url
\* links of a kind other than an array has no find method: calling it throws
findLink(obj, rx) ==
    LET links == Prop(obj, "links")
    IN  IF IsNullish(links) THEN Undef
        ELSE IF links.t # "array" THEN Throw
        ELSE IF \E i \in 1..Len(links.a) : linkTest(rx, links.a[i])
             THEN Prop(links.a[CHOOSE i \in 1..Len(links.a) :
                          /\ linkTest(rx, links.a[i])
                          /\ \A j \in 1..(i - 1) : ~linkTest(rx, links.a[j])],
                       "url")
             ELSE Undef

\* new Date(y, mo, d).getTime(), up to an order-preserving rescaling: months
\* overflow into years as Date does, a year 0..99 means 1900 + year
dateTime(y, mo, d) ==
    (IF y <= 99 THEN 1900 + y ELSE y) * 372 + mo * 31 + d

toTime(s) ==
    IF ~Truthy(s) THEN NEGATIVE_INFINITY
    ELSE IF testPresent(s) THEN POSITIVE_INFINITY
    ELSE LET str == ToStr(s)
             \* /^(\d{4})(?:-(\d{2}))?(?:-(\d{2}))?/
             hasY == Len(str) >= 4 /\ \A i \in 1..4 : IsDigit(str[i])
             hasM == Len(str) >= 7 /\ str[5] = "-" /\ IsDigit(str[6]) /\ IsDigit(str[7])
             hasD == hasM /\ Len(str) >= 10 /\ str[8] = "-"
                          /\ IsDigit(str[9]) /\ IsDigit(str[10])
             y == Number(SubSeq(str, 1, 4))
             mo == (IF hasM THEN Number(SubSeq(str, 6, 7)) ELSE 1) - 1
             d == IF hasD THEN Number(SubSeq(str, 9, 10)) ELSE 1
         IN  IF ~hasY THEN NEGATIVE_INFINITY ELSE dateTime(y, mo, d)

\* one element of scored
score(item) ==
    [ item |-> item,
      start |-> toTime(Prop(item, "start")),
      end |-> toTime(Prop(item, "end")),
      ongoing |-> ~Truthy(Prop(item, "end")) \/ testPresent(Prop(item, "end")) ]

\* the comparator without its last line: ties on the end date left as they are
eduCompare_noTieBreak(a, b) ==
    IF a.ongoing # b.ongoing THEN (IF a.ongoing THEN -1 ELSE 1)
    ELSE IF a.end # b.end THEN b.end - a.end
    ELSE 0

\* the comparator handed to scored.sort: negative puts a first
\* (Infinity - Infinity is NaN, which sort reads as 0, as the difference here)
eduCompare(a, b) ==
    IF a.ongoing # b.ongoing THEN (IF a.ongoing THEN -1 ELSE 1)
    ELSE IF a.end # b.end THEN b.end - a.end
    ELSE b.start - a.start

\* Array.prototype.sort is stable: insertion sort gives its result
RECURSIVE insertSorted(_, _)
insertSorted(sorted, x) ==
    IF sorted = <<>> THEN <<x>>
    ELSE IF eduCompare(sorted[Len(sorted)], x) > 0
         THEN Append(insertSorted(SubSeq(sorted, 1, Len(sorted) - 1), x),
                     sorted[Len(sorted)])
         ELSE Append(sorted, x)

RECURSIVE sortScored(_)
sortScored(scored) ==
    IF scored = <<>> THEN <<>>
    ELSE insertSorted(sortScored(SubSeq(scored, 1, Len(scored) - 1)),
                      scored[Len(scored)])

mostRecentEdu(obj) ==
    LET edu == Prop(obj, "education")
        arr == IF edu.t = "array" THEN edu.a ELSE <<>>
        scored == [i \in 1..Len(arr) |-> score(arr[i])]
    IN  IF arr = <<>> THEN Undef ELSE sortScored(scored)[1].item

\* the sort applied to obj.education itself
educationAfter_sortInPlace(obj) ==
    LET edu == Prop(obj, "education")
        sorted == sortScored([i \in 1..Len(edu.a) |-> score(edu.a[i])])
    IN  IF edu.t = "array" THEN Arr([i \in 1..Len(sorted) |-> sorted[i].item])
        ELSE edu

\* obj.education once mostRecentEdu has run: arr.map(...) builds a new
\* array, scored, and scored.sort(...) reorders that one in place; arr,
\* which is obj.education, is only read
educationAfter(obj) == Prop(obj, "education")

\* obj once get(obj, path) has returned: only the education.mostRecent.*
\* cases call a method that reorders an array; ?., find and reduce only read
objAfter(obj, path) ==
    IF /\ Len(path) = 3 /\ path[1] = "education" /\ path[2] = "mostRecent"
       /\ obj.t = "object" /\ "education" \in DOMAIN obj.f
    THEN Obj([obj.f EXCEPT !.education = educationAfter(obj)])
    ELSE obj

yyyymm(s) ==
    IF ~Truthy(s) THEN s
    ELSE LET str == ToStr(s)
             m == Len(str) >= 7 /\ (\A i \in 1..4 : IsDigit(str[i]))
                    /\ str[5] = "-" /\ IsDigit(str[6]) /\ IsDigit(str[7])
         IN  IF m THEN Str(SubSeq(str, 1, 7)) ELSE s

\* path.split(".").reduce((o, k) => o?.[k], obj)
RECURSIVE dotPath(_, _)
dotPath(obj, path) ==
    IF path = <<>> THEN obj ELSE dotPath(Prop(obj, path[1]), Tail(path))

get(obj, path) ==
    CASE path = <<"basics", "_fullName">> -> fullName(obj)
      [] path = <<"links", "linkedin">> ->
            findLink(obj, {<<"l","i","n","k","e","d","i","n">>})
      [] path = <<"links", "github">> ->
            findLink(obj, {<<"g","i","t","h","u","b">>})
      [] path = <<"links", "website">> ->
            findLink(obj, { <<"w","e","b","s","i","t","e">>,
                            <<"p","o","r","t","f","o","l","i","o">>,
                            <<"p","e","r","s","o","n","a","l">> })
      [] path = <<"workAuth", "usWorkAuthorization">> ->
            Prop(Prop(obj, "demographics"), "workAuthorization")
      [] path = <<"workAuth", "needsSponsorship">> ->
            Prop(Prop(obj, "demographics"), "needsSponsorship")
      [] path = <<"demographics", "race">> ->
            LET arr == Prop(Prop(obj, "demographics"), "raceEthnicity")
            IN  IF arr.t = "array" THEN arr ELSE Undef
      [] path = <<"demographics", "veteran">> ->
            Prop(Prop(obj, "demographics"), "veteranStatus")
      [] path = <<"education", "mostRecent", "school">> ->
            Prop(mostRecentEdu(obj), "school")
      [] path = <<"education", "mostRecent", "degree">> ->
            Prop(mostRecentEdu(obj), "degree")
      [] path = <<"education", "mostRecent", "field">> ->
            Prop(mostRecentEdu(obj), "field")
      [] path = <<"education", "mostRecent", "start">> ->
            yyyymm(Prop(mostRecentEdu(obj), "start"))
      [] path = <<"education", "mostRecent", "end">> ->
            LET val == Prop(mostRecentEdu(obj), "end")
            IN  IF testPresent(val) THEN Str(<<>>) ELSE yyyymm(val)
      [] OTHER -> dotPath(obj, path)

(***************************************************************************)
(* The resolver on education lists: every list of at most MaxEdu entries   *)
(* over the dates below is resolved for every education.mostRecent.* key.  *)
(* Each date string carries a note of what it denotes, written by hand and *)
(* independent of toTime, against which the resolver's choice is judged.   *)
(***************************************************************************)
MaxEdu == 2

None == [t |-> "none"]

engine == << page, attached, value, checked, userEdited, autofilled, outline,
             observer, timers, closures, nextTimer, nReq, nOther, sent, pass,
             nPasses, nEdits, nBatches, quiet, initialDone, bursts, burstLen,
             extra, lastBatch >>

\* no page, no request: the engine's variables when only a function is run
EngineOff ==
    /\ page = "none"
    /\ attached = {}
    /\ value = <<>>
    /\ checked = <<>>
    /\ userEdited = <<>>
    /\ autofilled = <<>>
    /\ outline = <<>>
    /\ observer = 0
    /\ timers = <<>>
    /\ closures = <<>>
    /\ nextTimer = 1
    /\ nReq = 0
    /\ nOther = 0
    /\ sent = <<>>
    /\ pass = None
    /\ nPasses = 0
    /\ nEdits = 0
    /\ nBatches = 0
    /\ quiet = FALSE
    /\ initialDone = FALSE
    /\ bursts = 0
    /\ burstLen = 0
    /\ extra = 0
    /\ lastBatch = "none"

EndDates ==
    { [v |-> Undef, kind |-> "ongoing", ymd |-> <<0, 0, 0>>],
      [v |-> Str(<<>>), kind |-> "ongoing", ymd |-> <<0, 0, 0>>],
      [v |-> Str(<<"P","r","e","s","e","n","t">>), kind |-> "ongoing", ymd |-> <<0, 0, 0>>],
      [v |-> Str(<<"2","0","1","9">>), kind |-> "date", ymd |-> <<2019, 1, 1>>],
      [v |-> Str(<<"2","0","2","1","-","0","6">>), kind |-> "date", ymd |-> <<2021, 6, 1>>],
      [v |-> Str(<<"2","0","2","1","-","0","6","-","1","5">>), kind |-> "date",
         ymd |-> <<2021, 6, 15>>],
      [v |-> Str(<<"n","/","a">>), kind |-> "bad", ymd |-> <<0, 0, 0>>] }

StartDates ==
    { [v |-> Str(<<"2","0","1","5">>), kind |-> "date", ymd |-> <<2015, 1, 1>>],
      [v |-> Str(<<"2","0","1","7","-","0","9">>), kind |-> "date", ymd |-> <<2017, 9, 1>>] }

SchoolNames == << <<"A">>, <<"B">>, <<"C">>, <<"D">>, <<"E">> >>

\* entry i of a list: its school and degree name the position
EduEntry(i, s, e) ==
    IF e.v = Undef
    THEN Obj([school |-> Str(SchoolNames[i]), degree |-> Str(SchoolNames[i]),
              start |-> s.v])
    ELSE Obj([school |-> Str(SchoolNames[i]), degree |-> Str(SchoolNames[i]),
              start |-> s.v, end |-> e.v])

EduLists ==
    UNION { [1..n -> StartDates \X EndDates] : n \in 1..MaxEdu }

EduInputs ==
    { [ obj |-> Obj([education |-> Arr([i \in DOMAIN l |-> EduEntry(i, l[i][1], l[i][2])])]),
        notes |-> [i \in DOMAIN l |-> [start |-> l[i][1], end |-> l[i][2]]] ] :
      l \in EduLists }
    \cup
    { [obj |-> o, notes |-> <<>>] :
      o \in { Undef,
              Obj([basics |-> Obj([firstName |-> Str(<<"A">>)])]),
              Obj([education |-> Arr(<<>>)]),
              Obj([education |-> Obj([school |-> Str(<<"A">>)])]) } }

EduKeys ==
    { <<"education", "mostRecent", k>> :
      k \in {"school", "degree", "field", "start", "end"} }

InitEdu ==
    /\ EngineOff
    /\ fnIn \in EduInputs
    /\ fnOut = None

ResolveEdu ==
    /\ fnOut = None
    /\ \E k \in EduKeys : fnOut' = [ path |-> k, val |-> get(fnIn.obj, k),
                                    obj |-> objAfter(fnIn.obj, k) ]
    /\ UNCHANGED << engine, fnIn >>

NextEdu == ResolveEdu

SpecEdu == InitEdu /\ [][NextEdu]_vars

\* a date, as noted, is later than another
Later(a, b) ==
    \/ a[1] > b[1]
    \/ a[1] = b[1] /\ a[2] > b[2]
    \/ a[1] = b[1] /\ a[2] = b[2] /\ a[3] > b[3]

\* entry i of the noted list is a most-recent entry in the sense of the claim
MostRecentOK(n, i) ==
    /\ (\E j \in DOMAIN n : n[j].end.kind = "ongoing") => n[i].end.kind = "ongoing"
    /\ (\E j \in DOMAIN n : n[j].end.kind # "bad") => n[i].end.kind # "bad"
    /\ n[i].end.kind = "date" =>
          \A j \in DOMAIN n :
             n[j].end.kind = "date" =>
                /\ ~Later(n[j].end.ymd, n[i].end.ymd)
                /\ n[j].end.ymd = n[i].end.ymd =>
                      ~Later(n[j].start.ymd, n[i].start.ymd)

\* C9: for a non-empty education list the school and degree resolved are
\* those of an entry that is ongoing if any entry is, else has the latest
\* end date (ties: the later start), and has an unparseable end only if
\* every entry has; for an empty or missing list every key is absent.
C9_MostRecent ==
    fnOut # None =>
       IF fnIn.notes = <<>>
       THEN fnOut.val = Undef
       ELSE fnOut.path[3] \in {"school", "degree"} =>
               \E i \in DOMAIN fnIn.notes :
                  /\ MostRecentOK(fnIn.notes, i)
                  /\ fnOut.val = Str(SchoolNames[i])

\* a list with no ongoing entry whose two entries tie on the end date,
\* resolved to the second, which started later
C9_Witness ==
    /\ fnOut # None
    /\ Len(fnIn.notes) = 2
    /\ fnOut.path[3] = "school"
    /\ fnIn.notes[1].end.ymd = <<2021, 6, 1>>
    /\ fnIn.notes[2].end.ymd = <<2021, 6, 1>>
    /\ Later(fnIn.notes[2].start.ymd, fnIn.notes[1].start.ymd)
    /\ fnOut.val = Str(SchoolNames[2])

(***************************************************************************)
(* The document. A page is a sequence of nodes in document order; a node   *)
(* is a record of what the script reads from it and never changes:         *)
(*   tag, type, name, id, placeholder        the element and its attributes*)
(*   forLabel, parentLbl, ariaLabel, byText, legend                        *)
(*                 the innerText of each label source ("" when absent)     *)
(*   options       of a select: a sequence of [value, text]                *)
(*   visible       offsetParent !== null                                   *)
(*   scope         0 in the document's own tree, else the node whose       *)
(*                 shadow root holds it                                    *)
(*   shadow        "none", "open" or "closed": the shadow root it hosts    *)
(*   value0, checked0   el.value and el.checked when the node is created   *)
(* What changes is held in a record dom: nodes, att (the nodes attached),  *)
(* value, checked, userEdited, autofilled, outline.                        *)
(***************************************************************************)
Node0 ==
    [ tag |-> "div", type |-> "", name |-> <<>>, id |-> <<>>,
      placeholder |-> <<>>, forLabel |-> <<>>, parentLbl |-> <<>>,
      ariaLabel |-> <<>>, byText |-> <<>>, legend |-> <<>>,
      options |-> <<>>, visible |-> TRUE, scope |-> 0, shadow |-> "none",
      value0 |-> <<>>, checked0 |-> FALSE ]

HIGHLIGHT == "2px solid #f7d560"

isFormEl(n) == n.tag \in {"input", "select", "textarea"}

\* the capture listeners on document for "input" and "change", run with
\* e.target = t
onEdit(dom, t) ==
    IF isFormEl(dom.nodes[t])
    THEN [dom EXCEPT !.userEdited[t] = TRUE, !.autofilled[t] = ""]
    ELSE dom

\* the outermost shadow host of a node: what e.target is at the document
\* for an event that crosses shadow boundaries
RECURSIVE hostInDocument(_, _)
hostInDocument(dom, el) ==
    IF dom.nodes[el].scope = 0 THEN el
    ELSE hostInDocument(dom, dom.nodes[el].scope)

\* an "input" or "change" event dispatched at el reaches the listeners on
\* document when el is in the document's own tree; from inside a shadow tree
\* only a composed event does, retargeted to the host
dispatch(dom, el, composed) ==
    IF el \notin dom.att THEN dom
    ELSE IF dom.nodes[el].scope = 0 THEN onEdit(dom, el)
    ELSE IF composed THEN onEdit(dom, hostInDocument(dom, el))
    ELSE dom

\* the radio button group of el: radios of the same non-empty name in the same tree
radioPeers(dom, el) ==
    { o \in DOMAIN dom.nodes :
        /\ o # el
        /\ dom.nodes[o].tag = "input" /\ dom.nodes[o].type = "radio"
        /\ dom.nodes[o].name = dom.nodes[el].name /\ dom.nodes[o].name # <<>>
        /\ dom.nodes[o].scope = dom.nodes[el].scope
        /\ (o \in dom.att) = (el \in dom.att) }

\* target.click(): the activation behaviour of the element, with the input
\* (composed) and change events the browser fires when the state changed
click(dom, target) ==
    LET n == dom.nodes[target] IN
    IF n.tag = "input" /\ n.type = "checkbox"
    THEN dispatch([dom EXCEPT !.checked[target] = ~dom.checked[target]], target, TRUE)
    ELSE IF n.tag = "input" /\ n.type = "radio" /\ ~dom.checked[target]
    THEN dispatch([dom EXCEPT !.checked =
                      [o \in DOMAIN dom.checked |->
                          IF o = target THEN TRUE
                          ELSE IF o \in radioPeers(dom, target) THEN FALSE
                          ELSE dom.checked[o]]],
                  target, TRUE)
    ELSE dom

(***************************************************************************)
(* Descriptor Extraction and Key Matcher                                   *)
(***************************************************************************)
labelText(n) ==
    join(nonEmpty(<<n.forLabel, n.parentLbl, n.ariaLabel, n.byText, n.legend>>), <<" ">>)

\* arr.filter(isNonEmptyString) for a sequence of strings
RECURSIVE nonBlank(_)
nonBlank(parts) ==
    IF parts = <<>> THEN <<>>
    ELSE IF trim(parts[1]) = <<>> THEN nonBlank(Tail(parts))
    ELSE <<parts[1]>> \o nonBlank(Tail(parts))

candidates(n) ==
    LET arr == nonBlank(<<n.name, n.id, n.placeholder, labelText(n), n.ariaLabel>>)
    IN  join([i \in 1..Len(arr) |-> norm(arr[i])], <<" ", "|", " ">>)

\* the alias table, in table order: each key with the texts its patterns look for
FIELD_ALIASES ==
    << [key |-> <<"basics", "_fullName">>, regs |-> {<<"f","u","l","l"," ","n","a","m","e">>}],
       [key |-> <<"basics", "firstName">>, regs |-> {<<"f","i","r","s","t">>}],
       [key |-> <<"basics", "email">>, regs |-> {<<"e","m","a","i","l">>}],
       [key |-> <<"links", "linkedin">>, regs |-> {<<"l","i","n","k","e","d","i","n">>}],
       [key |-> <<"workAuth", "needsSponsorship">>, regs |-> {<<"s","p","o","n","s","o","r">>}],
       [key |-> <<"demographics", "gender">>, regs |-> {<<"g","e","n","d","e","r">>}],
       [key |-> <<"demographics", "race">>, regs |-> {<<"r","a","c","e">>, <<"e","t","h","n","i","c">>}],
       [key |-> <<"demographics", "veteran">>, regs |-> {<<"v","e","t","e","r","a","n">>}] >>

NoKey == <<>>

\* for (const [k, regs] of Object.entries(FIELD_ALIASES))
\*     if (regs.some(r => r.test(c))) return k;
RECURSIVE firstMatch(_, _)
firstMatch(table, c) ==
    IF table = <<>> THEN NoKey
    ELSE IF \E r \in table[1].regs : includes(c, r) THEN table[1].key
    ELSE firstMatch(Tail(table), c)

matchKey(n) == firstMatch(FIELD_ALIASES, candidates(n))

(***************************************************************************)
(* Value Writer: setValue(el, value). Returns the document after the write *)
(* and what the function returned.                                         *)
(***************************************************************************)
idsOf(dom) == [i \in 1..Len(dom.nodes) |-> i]

\* document.querySelectorAll(`input[name="${CSS.escape(el.name)}"]`): the
\* inputs of that name in the document's own tree, in document order
\* (an element without a name is taken to have no name attribute to match)
groupOf(dom, el) ==
    SelectSeq(idsOf(dom),
              LAMBDA o : /\ o \in dom.att
                         /\ dom.nodes[o].scope = 0
                         /\ dom.nodes[o].tag = "input"
                         /\ dom.nodes[o].name # <<>>
                         /\ dom.nodes[o].name = dom.nodes[el].name)

\* Array.isArray(value) ? value.map(v => norm(String(v))) : [norm(String(value))]
wantOf(val) ==
    IF val.t = "array" THEN [i \in 1..Len(val.a) |-> norm(ToStr(val.a[i]))]
    ELSE << norm(ToStr(val)) >>

\* norm(labelText(target) || target.value)
lblOf(dom, target) ==
    LET lt == labelText(dom.nodes[target])
    IN  norm(IF lt # <<>> THEN lt ELSE dom.value[target])

\* want.some(w => w === lbl || lbl.includes(w))
wanted(want, lbl) ==
    \E i \in 1..Len(want) : want[i] = lbl \/ includes(lbl, want[i])

\* the radio loop: the first member that matches is activated, then break
RECURSIVE radioLoop(_, _, _)
radioLoop(dom, group, want) ==
    IF group = <<>> THEN [dom |-> dom, ok |-> FALSE]
    ELSE IF wanted(want, lblOf(dom, group[1]))
         THEN [dom |-> IF ~dom.checked[group[1]] THEN click(dom, group[1]) ELSE dom,
               ok |-> TRUE]
         ELSE radioLoop(dom, Tail(group), want)

\* the checkbox loop: every member whose state differs from the desired one
\* is clicked; clicked counts the clicks
RECURSIVE checkboxLoop(_, _, _, _)
checkboxLoop(dom, group, want, clicked) ==
    IF group = <<>> THEN [dom |-> dom, ok |-> clicked > 0]
    ELSE LET shouldBeChecked == wanted(want, lblOf(dom, group[1]))
         IN  IF dom.checked[group[1]] # shouldBeChecked
             THEN checkboxLoop(click(dom, group[1]), Tail(group), want, clicked + 1)
             ELSE checkboxLoop(dom, Tail(group), want, clicked)

\* opts.find(test): the index of the first option that passes, 0 if none
firstOption(opts, test(_)) ==
    IF \E i \in 1..Len(opts) : test(opts[i])
    THEN CHOOSE i \in 1..Len(opts) :
            test(opts[i]) /\ \A j \in 1..(i - 1) : ~test(opts[j])
    ELSE 0

\* one search for the first option that equals or contains the value
setSelect_oneSearch(dom, el, val) ==
    LET v == trim(ToStr(Coalesce(val, Str(<<>>))))
        opts == dom.nodes[el].options
        candidate == firstOption(opts, LAMBDA o : \/ norm(o.value) = norm(v)
                                                  \/ includes(norm(o.text), norm(v)))
    IN  IF candidate # 0
        THEN [dom |-> dispatch([dom EXCEPT !.value[el] = opts[candidate].value], el, FALSE),
              ok |-> TRUE]
        ELSE [dom |-> dom, ok |-> FALSE]

setSelect(dom, el, val) ==
    LET v == trim(ToStr(Coalesce(val, Str(<<>>))))
        opts == dom.nodes[el].options
        exact == firstOption(opts, LAMBDA o : norm(o.value) = norm(v) \/ norm(o.text) = norm(v))
        candidate == IF exact # 0 THEN exact
                     ELSE firstOption(opts, LAMBDA o : includes(norm(o.text), norm(v)))
    IN  IF candidate # 0
        THEN [dom |-> dispatch([dom EXCEPT !.value[el] = opts[candidate].value], el, FALSE),
              ok |-> TRUE]
        ELSE [dom |-> dom, ok |-> FALSE]

\* the text path: the value is set and an input and a change event, both
\* bubbling and not composed, are dispatched at the element
setText(dom, el, val) ==
    [dom |-> dispatch(dispatch([dom EXCEPT !.value[el] = ToStr(Coalesce(val, Str(<<>>)))],
                               el, FALSE),
                      el, FALSE),
     ok |-> TRUE]

setValue(dom, el, val) ==
    LET n == dom.nodes[el] IN
    IF dom.userEdited[el] THEN [dom |-> dom, ok |-> FALSE]
    ELSE IF n.tag = "input" /\ n.type \in {"checkbox", "radio"}
    THEN IF n.type = "radio"
         THEN radioLoop(dom, groupOf(dom, el), wantOf(val))
         ELSE checkboxLoop(dom, groupOf(dom, el), wantOf(val), 0)
    ELSE IF n.tag = "select" THEN setSelect(dom, el, val)
    ELSE setText(dom, el, val)

(***************************************************************************)
(* Element Discovery and the fill pass                                     *)
(***************************************************************************)
\* the attached nodes of one tree, in document order
inScope(dom, s) ==
    SelectSeq(idsOf(dom), LAMBDA i : i \in dom.att /\ dom.nodes[i].scope = s)

RECURSIVE walk(_, _)
RECURSIVE walkHosts(_, _)
\* the form elements of the tree only, no shadow root entered
walk_noDescend(dom, s) ==
    SelectSeq(inScope(dom, s), LAMBDA i : isFormEl(dom.nodes[i]))

\* walk(node): the form elements of the tree, then a walk of every open
\* shadow root hosted in it
walk(dom, s) ==
    SelectSeq(inScope(dom, s), LAMBDA i : isFormEl(dom.nodes[i]))
    \o walkHosts(dom, SelectSeq(inScope(dom, s), LAMBDA i : dom.nodes[i].shadow = "open"))

walkHosts(dom, hosts) ==
    IF hosts = <<>> THEN <<>>
    ELSE walk(dom, hosts[1]) \o walkHosts(dom, Tail(hosts))

collectInputsDeep(dom) == walk(dom, 0)

\* the loop of fill over the elements left, with the count and the log of
\* the calls of setValue so far; one operator per step of the loop body
RECURSIVE fillLoop(_, _, _, _, _)
RECURSIVE fillMatched(_, _, _, _, _, _)
RECURSIVE fillResolved(_, _, _, _, _, _, _)
RECURSIVE fillWritten(_, _, _, _, _, _, _, _)

\* the element highlighted and counted whatever setValue returned
fillWritten_alwaysCounts(dom, profile, inputs, n, log, key, val, r) ==
    fillLoop([r.dom EXCEPT !.outline[inputs[1]] = HIGHLIGHT], profile,
             Tail(inputs), n + 1,
             Append(log, [el |-> inputs[1], key |-> key, val |-> val, ok |-> r.ok]))

\* if (setValue(el, val)) { el.style.outline = ...; n++; }   with r its outcome
fillWritten(dom, profile, inputs, n, log, key, val, r) ==
    IF r.ok
    THEN fillLoop([r.dom EXCEPT !.outline[inputs[1]] = HIGHLIGHT], profile,
                  Tail(inputs), n + 1,
                  Append(log, [el |-> inputs[1], key |-> key, val |-> val, ok |-> TRUE]))
    ELSE fillLoop(r.dom, profile, Tail(inputs), n,
                  Append(log, [el |-> inputs[1], key |-> key, val |-> val, ok |-> FALSE]))

\* const val = get(profile, key); if (val == null || val === "") continue;
\* an exception of get ends the pass: the rejected promise of the async
\* function is dropped and nothing is sent
fillResolved(dom, profile, inputs, n, log, key, val) ==
    IF val = Throw THEN [dom |-> dom, n |-> n, log |-> log, threw |-> TRUE]
    ELSE IF IsNullish(val) \/ val = Str(<<>>)
    THEN fillLoop(dom, profile, Tail(inputs), n, log)
    ELSE fillWritten(dom, profile, inputs, n, log, key, val,
                     setValue(dom, inputs[1], val))

\* const key = matchKey(el); if (!key) continue;
fillMatched(dom, profile, inputs, n, log, key) ==
    IF key = NoKey THEN fillLoop(dom, profile, Tail(inputs), n, log)
    ELSE fillResolved(dom, profile, inputs, n, log, key, get(profile, key))

\* for (const el of inputs) { if (el.dataset?.userEdited === "1") continue; ...
fillLoop(dom, profile, inputs, n, log) ==
    IF inputs = <<>> THEN [dom |-> dom, n |-> n, log |-> log, threw |-> FALSE]
    ELSE IF dom.userEdited[inputs[1]]
    THEN fillLoop(dom, profile, Tail(inputs), n, log)
    ELSE fillMatched(dom, profile, inputs, n, log, matchKey(dom.nodes[inputs[1]]))

fill(dom, profile) ==
    fillLoop(dom, profile,
             SelectSeq(collectInputsDeep(dom), LAMBDA el : dom.nodes[el].visible),
             0, <<>>)

(***************************************************************************)
(* Pages and profiles the engine is run on                                 *)
(***************************************************************************)
TextInput(name) == [Node0 EXCEPT !.tag = "input", !.type = "text", !.name = name]
Choice(type, name, label) ==
    [Node0 EXCEPT !.tag = "input", !.type = type, !.name = name,
                  !.forLabel = label, !.value0 = <<"o","n">>]

\* a form: first name, a gender dropdown, an e-mail field the page has
\* filled in; the page later adds a LinkedIn field
FormPage ==
    << TextInput(<<"f","i","r","s","t">>),
       [Node0 EXCEPT !.tag = "select", !.name = <<"g","e","n","d","e","r">>,
                     !.options = << [value |-> <<>>, text |-> <<"S","e","l","e","c","t">>],
                                    [value |-> <<"f">>, text |-> <<"F","e","m","a","l","e">>],
                                    [value |-> <<"m">>, text |-> <<"M","a","l","e">>] >>],
       [TextInput(<<"e","m","a","i","l">>) EXCEPT !.value0 = <<"o","l","d">>],
       TextInput(<<"l","i","n","k","e","d","i","n">>) >>

\* a race/ethnicity checkbox group, the second box ticked by the page; the
\* page later adds a free-text field of the same topic
ChecksPage ==
    << Choice("checkbox", <<"r","a","c","e">>, <<"A","s","i","a","n">>),
       [Choice("checkbox", <<"r","a","c","e">>, <<"W","h","i","t","e">>) EXCEPT !.checked0 = TRUE],
       [TextInput(<<"e","t","h","n","i","c","i","t","y">>) EXCEPT !.tag = "textarea", !.type = "", !.value0 = <<"o","l","d">>] >>

\* a gender radio group in the order Female, Male, Other
RadiosPage ==
    << Choice("radio", <<"g","e","n","d","e","r">>, <<"F","e","m","a","l","e">>),
       Choice("radio", <<"g","e","n","d","e","r">>, <<"M","a","l","e">>),
       Choice("radio", <<"g","e","n","d","e","r">>, <<"O","t","h","e","r">>) >>

\* a component with an open shadow root holding a first-name field, one
\* with a closed root holding another, a hidden e-mail field
ShadowPage ==
    << [Node0 EXCEPT !.shadow = "open"],
       [TextInput(<<"f","i","r","s","t">>) EXCEPT !.scope = 1],
       [Node0 EXCEPT !.shadow = "closed"],
       [TextInput(<<"f","i","r","s","t">>) EXCEPT !.scope = 3],
       [TextInput(<<"e","m","a","i","l">>) EXCEPT !.visible = FALSE] >>

Pages == {"form", "checks", "radios", "shadow"}

Nodes(p) ==
    CASE p = "form" -> FormPage
      [] p = "checks" -> ChecksPage
      [] p = "radios" -> RadiosPage
      [] p = "shadow" -> ShadowPage
      [] OTHER -> <<>>

\* the form elements page scripts add and remove after load; the rest is
\* there from the start and stays
Late(p) ==
    CASE p = "form" -> {4}
      [] p = "checks" -> {3}
      [] OTHER -> {}

PAnn ==
    Obj([ basics |-> Obj([firstName |-> Str(<<"A","n","n">>), lastName |-> Str(<<"L","e","e">>),
                          email |-> Str(<<"a","@","x">>)]),
          links |-> Arr(<< Obj([label |-> Str(<<"L","i","n","k","e","d","I","n">>), url |-> Str(<<"i","n","/","a","n","n">>)]) >>),
          demographics |-> Obj([gender |-> Str(<<"M","a","l","e">>),
                                raceEthnicity |-> Arr(<< Str(<<"A","s","i","a","n">>) >>)]) ])

\* a profile of the older shape: links is a record, not a list; no race
\* given, no e-mail
PBob ==
    Obj([ basics |-> Obj([firstName |-> Str(<<"B","o","b">>), lastName |-> Str(<<"R","a","y">>),
                          email |-> Str(<<>>)]),
          links |-> Obj([linkedin |-> Str(<<"i","n","/","b","o","b">>)]),
          demographics |-> Obj([gender |-> Str(<<"N","o","n","b","i","n","a","r","y">>),
                                raceEthnicity |-> Arr(<<>>)]) ])

\* msg.payload of a FILL_EXECUTE message: the profile and the
\* allowDemographics gate; a message may come without payload
Payloads ==
    { [profile |-> PAnn, allowDemographics |-> FALSE],
      [profile |-> PBob, allowDemographics |-> TRUE],
      [profile |-> Undef, allowDemographics |-> FALSE] }

\* what a person types into a text field
UserTexts == { <<"m","i","n","e">>, <<>> }

(***************************************************************************)
(* The engine as a state machine                                           *)
(***************************************************************************)
\* messages, mutation batches and human edits the page goes through
MaxEvents == 4

MoreEvents == nReq + nOther + nBatches + nEdits < MaxEvents

DomOf ==
    [ nodes |-> Nodes(page), att |-> attached, value |-> value,
      checked |-> checked, userEdited |-> userEdited,
      autofilled |-> autofilled, outline |-> outline ]

SetDom(d) ==
    /\ value' = d.value
    /\ checked' = d.checked
    /\ userEdited' = d.userEdited
    /\ autofilled' = d.autofilled
    /\ outline' = d.outline

\* the content script has just been injected: the listeners are installed,
\* observer is null, nothing is scheduled
Init ==
    /\ page \in Pages
    /\ attached = DOMAIN Nodes(page) \ Late(page)
    /\ value = [i \in DOMAIN Nodes(page) |-> Nodes(page)[i].value0]
    /\ checked = [i \in DOMAIN Nodes(page) |-> Nodes(page)[i].checked0]
    /\ userEdited = [i \in DOMAIN Nodes(page) |-> FALSE]
    /\ autofilled = [i \in DOMAIN Nodes(page) |-> "unset"]
    /\ outline = [i \in DOMAIN Nodes(page) |-> ""]
    /\ observer = 0
    /\ timers = <<>>
    /\ closures = <<>>
    /\ nextTimer = 1
    /\ nReq = 0
    /\ nOther = 0
    /\ sent = <<>>
    /\ pass = None
    /\ nPasses = 0
    /\ nEdits = 0
    /\ nBatches = 0
    /\ quiet = FALSE
    /\ initialDone = FALSE
    /\ bursts = 0
    /\ burstLen = 0
    /\ extra = 0
    /\ lastBatch = "none"
    /\ fnIn = None
    /\ fnOut = None

\* the closure returned by scheduleFill, called with its t: without clearing
armed_noClear(pending, t, entry) == Append(pending, entry)

\* the closure returned by scheduleFill, called with its t:
\*   if (t) window.clearTimeout(t); t = window.setTimeout(...)
\* gives the pending timers; all delays are equal, so they fire in the
\* order they were set
armed(pending, t, entry) ==
    Append(IF t # 0 THEN SelectSeq(pending, LAMBDA x : x.id # t) ELSE pending, entry)

\* the timer the closure c would set now
TimerOf(c) ==
    [ id |-> nextTimer, c |-> c, profile |-> closures[c].profile,
      allowDemographics |-> closures[c].allowDemographics ]

Pending(c) == \E i \in 1..Len(timers) : timers[i].id = closures[c].t

\* the onMessage listener for a FILL_EXECUTE message: watchForChanges(profile)
\* makes a new closure, replaces the observer and calls run()
FillExecute(payload) ==
    /\ MoreEvents
    /\ LET c == nReq + 1
           entry == [ id |-> nextTimer, c |-> c, profile |-> payload.profile,
                      allowDemographics |-> payload.allowDemographics ]
       IN  /\ closures' = Append(closures,
                                 [ profile |-> payload.profile,
                                   allowDemographics |-> payload.allowDemographics,
                                   t |-> nextTimer ])
           /\ timers' = armed(timers, 0, entry)
           /\ observer' = c
           /\ nReq' = c
    /\ nextTimer' = nextTimer + 1
    /\ initialDone' = FALSE
    /\ bursts' = 0
    /\ burstLen' = 0
    /\ extra' = 0
    /\ lastBatch' = "none"
    /\ UNCHANGED << page, attached, value, checked, userEdited, autofilled,
                    outline, sent, pass, nPasses, nEdits, nBatches, quiet,
                    nOther, fnIn, fnOut >>

\* the observer's callback as it was before: run for every batch
someAdded_anyBatch(adds, other) == TRUE

\* muts.some(m => m.addedNodes && m.addedNodes.length > 0)
someAdded(adds, other) == adds # {} \/ other = "added"

\* the messages the tab is sent: FILL_EXECUTE with a payload by the popup
\* and the background script, FILL_REQUEST by the keyboard command and
\* FILL_UNDO by the popup, both without payload
Messages ==
    { [type |-> "FILL_EXECUTE", payload |-> p] : p \in Payloads }
    \cup { [type |-> t, payload |-> Undef] : t \in {"FILL_REQUEST", "FILL_UNDO"} }

\* const { profile } = msg.payload ?? {}
payloadOf(msg) ==
    IF msg.payload = Undef THEN [profile |-> Undef, allowDemographics |-> FALSE]
    ELSE msg.payload

\* the listener taking every message for a fill request
isFillExecute_anyType(msg) == TRUE

\* the listener's test, negated: if (msg?.type !== "FILL_EXECUTE") return;
isFillExecute(msg) == msg.type = "FILL_EXECUTE"

\* the chrome.runtime.onMessage listener
OnMessage(msg) ==
    IF isFillExecute(msg) THEN FillExecute(payloadOf(msg))
    ELSE /\ MoreEvents
         /\ nOther' = nOther + 1
         /\ UNCHANGED << page, attached, value, checked, userEdited, autofilled,
                         outline, observer, timers, closures, nextTimer, nReq,
                         sent, pass, nPasses, nEdits, nBatches, quiet,
                         initialDone, bursts, burstLen, extra, lastBatch,
                         fnIn, fnOut >>

\* page scripts add and remove nodes in one task: the form elements adds
\* and rems and, with other, nodes that are no form elements (text, markup).
\* The observer's callback runs at the end of the task with the batch of
\* records, and calls run() if some record has added nodes
Mutate(adds, rems, other) ==
    /\ MoreEvents
    /\ adds \cup rems # {} \/ other # "none"
    /\ adds \subseteq Late(page) \ attached
    /\ rems \subseteq Late(page) \cap attached
    /\ attached' = (attached \ rems) \cup adds
    /\ nBatches' = nBatches + 1
    /\ quiet' = FALSE
    /\ lastBatch' = IF someAdded(adds, other) THEN "add" ELSE "remove"
    /\ IF observer # 0 /\ someAdded(adds, other)
       THEN /\ timers' = armed(timers, closures[observer].t, TimerOf(observer))
            /\ closures' = [closures EXCEPT ![observer].t = nextTimer]
            /\ nextTimer' = nextTimer + 1
            /\ IF ~initialDone THEN UNCHANGED << bursts, burstLen >>
               ELSE IF Pending(observer)
                    THEN bursts' = bursts /\ burstLen' = burstLen + 1
                    ELSE bursts' = bursts + 1 /\ burstLen' = 1
       ELSE UNCHANGED << timers, closures, nextTimer, bursts, burstLen >>
    /\ UNCHANGED << page, value, checked, userEdited, autofilled, outline,
                    observer, nReq, nOther, sent, pass, nPasses, nEdits,
                    initialDone, extra, fnIn, fnOut >>

\* the state after the callback of timer head has run fill with outcome r:
\* chrome.runtime.sendMessage({ type: "FILL_DONE", count: n }) unless the
\* pass ended by an exception
Filled(head, r) ==
    /\ SetDom(r.dom)
    /\ sent' = IF r.threw THEN sent
               ELSE Append(sent, [type |-> "FILL_DONE", count |-> r.n])
    /\ pass' = [ c |-> head.c, profile |-> head.profile,
                 allowDemographics |-> head.allowDemographics,
                 n |-> r.n, log |-> r.log, threw |-> r.threw ]
    /\ IF head.c # observer THEN UNCHANGED << initialDone, extra >>
       ELSE IF ~initialDone THEN initialDone' = TRUE /\ extra' = extra
       ELSE initialDone' = initialDone /\ extra' = extra + 1

\* the oldest pending timer fires: fill(profile) of the closure that set it
TimerFire ==
    /\ timers # <<>>
    /\ Filled(timers[1], fill(DomOf, timers[1].profile))
    /\ timers' = Tail(timers)
    /\ nPasses' = nPasses + 1
    /\ quiet' = TRUE
    /\ lastBatch' = "none"
    /\ UNCHANGED << page, attached, observer, closures, nextTimer, nReq,
                    nOther, nEdits, nBatches, bursts, burstLen, fnIn, fnOut >>

\* a person edits a visible field: types into a text field, clicks a
\* checkbox or an unselected radio, picks another option of a dropdown; the
\* browser fires input (composed) and change at the element
UserEdit(el) ==
    /\ MoreEvents
    /\ el \in attached
    /\ isFormEl(Nodes(page)[el])
    /\ Nodes(page)[el].visible
    /\ LET n == Nodes(page)[el] IN
       IF n.tag = "input" /\ n.type \in {"checkbox", "radio"}
       THEN /\ n.type = "radio" => ~checked[el]
            /\ SetDom(click(DomOf, el))
       ELSE IF n.tag = "select"
       THEN \E i \in 1..Len(n.options) :
               /\ n.options[i].value # value[el]
               /\ SetDom(dispatch([DomOf EXCEPT !.value[el] = n.options[i].value], el, TRUE))
       ELSE \E txt \in UserTexts :
               /\ txt # value[el]
               /\ SetDom(dispatch([DomOf EXCEPT !.value[el] = txt], el, TRUE))
    /\ nEdits' = nEdits + 1
    /\ quiet' = FALSE
    /\ UNCHANGED << page, attached, observer, timers, closures, nextTimer,
                    nReq, nOther, sent, pass, nPasses, nBatches, initialDone,
                    bursts, burstLen, extra, lastBatch, fnIn, fnOut >>

Next ==
    \/ \E msg \in Messages : OnMessage(msg)
    \/ \E adds, rems \in SUBSET Late(page), other \in {"none", "added", "removed"} :
          Mutate(adds, rems, other)
    \/ TimerFire
    \/ \E el \in DOMAIN Nodes(page) : UserEdit(el)

Spec == Init /\ [][Next]_vars

\* a step in which the callback of a pending timer runs: the steps of
\* TimerFire, told by the pass they start
TimerRuns == timers # <<>> /\ nPasses' = nPasses + 1

\* the same with the browser running the callback of a timer that is due:
\* a pending timer is not left pending for ever
LiveSpec == Spec /\ WF_nPasses(TimerRuns)

(***************************************************************************)
(* Properties                                                              *)
(***************************************************************************)
\* this step is a fill pass
IsPass == nPasses' = nPasses + 1

\* C1: a fill pass leaves the value and the checked state of every element
\* that carries the user-edited flag as they were.
C1_FlaggedUntouched ==
    [][IsPass =>
         \A el \in DOMAIN userEdited :
            userEdited[el] => value'[el] = value[el] /\ checked'[el] = checked[el]]_vars

\* C2: a pass that follows a completed pass of the same profile, with no
\* human edit and no change of the document in between, leaves values,
\* checked states and highlights as they are and reports the same count.
C2_Idempotent ==
    [][(IsPass /\ pass # None /\ quiet /\ ~pass.threw /\ ~pass'.threw
          /\ pass'.profile = pass.profile)
       => /\ value' = value
          /\ checked' = checked
          /\ outline' = outline
          /\ pass'.n = pass.n]_vars

\* key.startsWith("demographics.")
IsDemographic(key) == Len(key) > 1 /\ key[1] = "demographics"

\* C3: a pass of a request whose allowDemographics is false (or missing)
\* calls the writer for no element whose key is a demographics key.
C3_DemographicsGated ==
    (pass # None /\ ~pass.allowDemographics) =>
       \A i \in 1..Len(pass.log) : ~IsDemographic(pass.log[i].key)

C5_OnePending == Len(timers) <= 1

\* the elements a pass starting now would go over, in its order
Discovered == SelectSeq(collectInputsDeep(DomOf), LAMBDA el : Nodes(page)[el].visible)

KeyOf(el) == matchKey(Nodes(page)[el])

Present(val) == val # Throw /\ ~IsNullish(val) /\ val # Str(<<>>)

\* not flagged, matched, and with a present value in the profile
Eligible(el, profile) ==
    /\ ~userEdited[el]
    /\ KeyOf(el) # NoKey
    /\ Present(get(profile, KeyOf(el)))

\* the position in Discovered at which resolving the key throws, if any
Throws(k, profile) ==
    /\ ~userEdited[Discovered[k]]
    /\ KeyOf(Discovered[k]) # NoKey
    /\ get(profile, KeyOf(Discovered[k])) = Throw

IsTextual(el) ==
    LET n == Nodes(page)[el]
    IN  n.tag = "textarea" \/ (n.tag = "input" /\ n.type \notin {"checkbox", "radio"})

LoggedOk(p, el) == \E i \in 1..Len(p.log) : p.log[i].el = el /\ p.log[i].ok

C7_NoEmptyWrite ==
    pass # None => \A i \in 1..Len(pass.log) : ToStr(pass.log[i].val) # <<>>

\* C8: every pass that has started went over its elements and sent FILL_DONE.
C8_EveryPassCompletes ==
    /\ pass # None => ~pass.threw
    /\ Len(sent) = nPasses

\* after the last pass: for every write to a radio with a single desired
\* value that equals the normalized label of a member of the group, that
\* member is checked and it is the only member checked
RadioExactAfter ==
    \A i \in 1..Len(pass.log) :
       LET el == pass.log[i].el
           g == groupOf(DomOf, el)
           d == norm(ToStr(pass.log[i].val))
       IN  ( /\ Nodes(page)[el].type = "radio"
             /\ pass.log[i].val.t = "string"
             /\ \E m \in 1..Len(g) : lblOf(DomOf, g[m]) = d )
           => /\ \A m \in 1..Len(g) : lblOf(DomOf, g[m]) = d => checked[g[m]]
              /\ Cardinality({ m \in 1..Len(g) : checked[g[m]] }) = 1

\* C10: a radio write whose desired value equals a member's normalized label
\* activates that member and leaves exactly one member activated.
C10_RadioExact == [][IsPass => RadioExactAfter']_vars

(***************************************************************************)
(* The resolver on the full-name key: every pair of first and last name    *)
(* below, each with a note of its text without the surrounding blanks,     *)
(* is resolved, and a document with one full-name field is filled from it. *)
(***************************************************************************)
\* a document just loaded: every node attached, nothing flagged
freshDom(nodes) ==
    [ nodes |-> nodes, att |-> DOMAIN nodes,
      value |-> [i \in DOMAIN nodes |-> nodes[i].value0],
      checked |-> [i \in DOMAIN nodes |-> nodes[i].checked0],
      userEdited |-> [i \in DOMAIN nodes |-> FALSE],
      autofilled |-> [i \in DOMAIN nodes |-> "unset"],
      outline |-> [i \in DOMAIN nodes |-> ""] ]

NameParts ==
    { [v |-> Undef, text |-> <<>>],
      [v |-> Null, text |-> <<>>],
      [v |-> Str(<<>>), text |-> <<>>],
      [v |-> Str(<<" ", " ">>), text |-> <<>>],
      [v |-> Str(<<"A","n","n">>), text |-> <<"A","n","n">>],
      [v |-> Str(<<" ","A","n","n"," ">>), text |-> <<"A","n","n">>],
      [v |-> Str(<<"L","e","e"," "," ">>), text |-> <<"L","e","e">>],
      [v |-> Str(<<"M","a","r","y"," ","J","o">>), text |-> <<"M","a","r","y"," ","J","o">>] }

\* a profile with the two names; a name noted Undef is left out of basics
NameProfile(f, l) ==
    Obj([ basics |->
            IF f.v = Undef /\ l.v = Undef THEN Obj([email |-> Str(<<"a","@","x">>)])
            ELSE IF f.v = Undef THEN Obj([lastName |-> l.v])
            ELSE IF l.v = Undef THEN Obj([firstName |-> f.v])
            ELSE Obj([firstName |-> f.v, lastName |-> l.v]) ])

NameInputs ==
    { [obj |-> NameProfile(f, l), first |-> f.text, last |-> l.text] : f, l \in NameParts }
    \cup
    { [obj |-> o, first |-> <<>>, last |-> <<>>] :
      o \in { Undef, Null, Obj([links |-> Arr(<<>>)]),
              Obj([basics |-> Str(<<"A","n","n">>)]) } }

\* a document whose only field asks for the full name and holds a text
NamePage ==
    << [TextInput(<<"f","u","l","l"," ","n","a","m","e">>) EXCEPT !.value0 = <<"o","l","d">>] >>

InitName ==
    /\ EngineOff
    /\ fnIn \in NameInputs
    /\ fnOut = None

ResolveName ==
    /\ fnOut = None
    /\ fnOut' = [ val |-> get(fnIn.obj, <<"basics", "_fullName">>),
                  r |-> fill(freshDom(NamePage), fnIn.obj) ]
    /\ UNCHANGED << engine, fnIn >>

NextName == ResolveName

SpecName == InitName /\ [][NextName]_vars

\* C11: the full-name key resolves to the first and last name, each without
\* surrounding blanks, joined by one space when neither is empty, to the one
\* that is not empty otherwise, and to absent when both are empty; when
\* absent, the full-name field keeps its content, is not highlighted and
\* the count is 0.
C11_FullName ==
    fnOut # None =>
       /\ fnOut.val =
             IF fnIn.first # <<>> /\ fnIn.last # <<>>
             THEN Str(fnIn.first \o <<" ">> \o fnIn.last)
             ELSE IF fnIn.first # <<>> THEN Str(fnIn.first)
             ELSE IF fnIn.last # <<>> THEN Str(fnIn.last)
             ELSE Undef
       /\ (fnIn.first = <<>> /\ fnIn.last = <<>>) =>
             /\ fnOut.r.dom = freshDom(NamePage)
             /\ fnOut.r.n = 0
             /\ fnOut.r.log = <<>>
             /\ ~fnOut.r.threw

\* a first name with blanks around it and no last name: resolved to the
\* bare first name, which is written to the field
C11_Witness ==
    /\ fnOut # None
    /\ fnIn.first = <<"A","n","n">>
    /\ fnIn.last = <<>>
    /\ fnOut.val = Str(<<"A","n","n">>)
    /\ fnOut.r.dom.value[1] = <<"A","n","n">>
    /\ fnOut.r.n = 1

(***************************************************************************)
(* Element discovery on every document of at most MaxNodes elements: each  *)
(* element is a form element, a plain element, or the host of an open or   *)
(* closed shadow root, and lies in the document's own tree or in the       *)
(* shadow tree of an earlier host.                                         *)
(***************************************************************************)
MaxNodes == 3

NodeKinds == {"input", "select", "textarea", "div", "open", "closed"}

TreeNode(kind, scope) ==
    [Node0 EXCEPT !.tag = IF kind \in {"open", "closed"} THEN "div" ELSE kind,
                  !.type = IF kind = "input" THEN "text" ELSE "",
                  !.shadow = IF kind \in {"open", "closed"} THEN kind ELSE "none",
                  !.scope = scope]

\* the documents of exactly n elements: a document of n - 1 with one more
\* element, placed in the document's tree or under one of the hosts
RECURSIVE TreesOf(_)
TreesOf(n) ==
    IF n = 0 THEN { <<>> }
    ELSE UNION { { Append(t, TreeNode(k, sc)) :
                     k \in NodeKinds,
                     sc \in {0} \cup { h \in DOMAIN t : t[h].shadow # "none" } } :
                 t \in TreesOf(n - 1) }

Trees == UNION { TreesOf(n) : n \in 1..MaxNodes }

InitTree ==
    /\ EngineOff
    /\ fnIn \in { [nodes |-> t] : t \in Trees }
    /\ fnOut = None

Collect ==
    /\ fnOut = None
    /\ fnOut' = [found |-> collectInputsDeep(freshDom(fnIn.nodes))]
    /\ UNCHANGED << engine, fnIn >>

NextTree == Collect

SpecTree == InitTree /\ [][NextTree]_vars

\* every shadow root between the element and the document is open
RECURSIVE AllOpen(_, _)
AllOpen(nodes, el) ==
    \/ nodes[el].scope = 0
    \/ /\ nodes[nodes[el].scope].shadow = "open"
       /\ AllOpen(nodes, nodes[el].scope)

\* C12: discovery returns exactly the inputs, selects and textareas that
\* lie in the document or in open shadow trees nested at any depth, each
\* once, and none that has a closed shadow root above it.
C12_Discovery ==
    fnOut # None =>
       /\ \A el \in DOMAIN fnIn.nodes :
             (isFormEl(fnIn.nodes[el]) /\ AllOpen(fnIn.nodes, el))
             <=> \E i \in 1..Len(fnOut.found) : fnOut.found[i] = el
       /\ \A i, j \in 1..Len(fnOut.found) : fnOut.found[i] = fnOut.found[j] => i = j

\* an input two open shadow roots deep is found
C12_Witness ==
    /\ fnOut # None
    /\ Len(fnIn.nodes) = 3
    /\ fnIn.nodes[1].shadow = "open"
    /\ fnIn.nodes[2].shadow = "open" /\ fnIn.nodes[2].scope = 1
    /\ fnIn.nodes[3].tag = "input" /\ fnIn.nodes[3].scope = 2
    /\ fnOut.found = <<3>>

\* C13: a direct human edit of a form element sets its user-edited flag,
\* and a flag that is set stays set in every later step.
C13_FlagSticky ==
    [][ /\ \A el \in DOMAIN userEdited : UserEdit(el) => userEdited'[el]
        /\ \A el \in DOMAIN userEdited : userEdited[el] => userEdited'[el] ]_vars

\* the second half of C13 alone: no step clears a flag
C13_NeverCleared ==
    [][\A el \in DOMAIN userEdited : userEdited[el] => userEdited'[el]]_vars

C15_OnlyAddBatches ==
    [][\A adds, rems \in SUBSET Late(page), other \in {"none", "added", "removed"} :
          Mutate(adds, rems, other) =>
             IF adds = {} /\ other # "added"
             THEN timers' = timers /\ closures' = closures /\ nextTimer' = nextTimer
             ELSE observer # 0 =>
                     /\ timers'[Len(timers')].id = nextTimer
                     /\ timers'[Len(timers')].c = observer
                     /\ closures'[observer].t = nextTimer
                     /\ \A i \in 1..(Len(timers') - 1) : timers'[i].c # observer]_vars

\* the latest event is a batch that only removed nodes, and the timer set
\* by the request before it is still the one pending
C15_Witness ==
    /\ lastBatch = "remove"
    /\ nReq = 1
    /\ nPasses = 0
    /\ Len(timers) = 1
    /\ timers[1].id = closures[1].t

\* C16: a fill pass sets the user-edited flag of no element.
C16_EngineNeverFlags ==
    [][IsPass => \A el \in DOMAIN userEdited : userEdited'[el] => userEdited[el]]_vars

(***************************************************************************)
(* The writer on dropdowns: every list of at most MaxOpts of the options   *)
(* below, written with each of the desired values. Options and values      *)
(* carry a note of their normalized texts, written by hand.                *)
(***************************************************************************)
MaxOpts == 3

OptionPool ==
    { [value |-> <<>>, text |-> <<"S","e","l","e","c","t">>,
       nv |-> <<>>, nt |-> <<"s","e","l","e","c","t">>],
      [value |-> <<"f">>, text |-> <<"F","e","m","a","l","e">>,
       nv |-> <<"f">>, nt |-> <<"f","e","m","a","l","e">>],
      [value |-> <<"m">>, text |-> <<" ","M","a","l","e">>,
       nv |-> <<"m">>, nt |-> <<"m","a","l","e">>],
      [value |-> <<"M","A","L","E">>, text |-> <<"M","a","n">>,
       nv |-> <<"m","a","l","e">>, nt |-> <<"m","a","n">>] }

DesiredPool ==
    { [v |-> Str(<<" ","M","A","L","E"," ">>), n |-> <<"m","a","l","e">>],
      [v |-> Str(<<"F","e","m">>), n |-> <<"f","e","m">>],
      [v |-> Str(<<"m">>), n |-> <<"m">>],
      [v |-> Str(<<"x">>), n |-> <<"x">>] }

\* a dropdown with the options; the browser shows the first one
SelectNode(opts) ==
    [Node0 EXCEPT !.tag = "select", !.name = <<"g","e","n","d","e","r">>,
                  !.options = [i \in DOMAIN opts |->
                                 [value |-> opts[i].value, text |-> opts[i].text]],
                  !.value0 = opts[1].value]

SelectInputs ==
    { [opts |-> o, want |-> d] :
      o \in UNION { [1..n -> OptionPool] : n \in 1..MaxOpts }, d \in DesiredPool }

InitSelect ==
    /\ EngineOff
    /\ fnIn \in SelectInputs
    /\ fnOut = None

WriteSelect ==
    /\ fnOut = None
    /\ fnOut' = setValue(freshDom(<<SelectNode(fnIn.opts)>>), 1, fnIn.want.v)
    /\ UNCHANGED << engine, fnIn >>

NextSelect == WriteSelect

SpecSelect == InitSelect /\ [][NextSelect]_vars

\* the options noted equal to the desired value, and those whose noted text
\* contains it
ExactOpts == { i \in DOMAIN fnIn.opts : fnIn.want.n \in {fnIn.opts[i].nv, fnIn.opts[i].nt} }
SubstrOpts == { i \in DOMAIN fnIn.opts : includes(fnIn.opts[i].nt, fnIn.want.n) }

\* C17: a dropdown write selects an option equal to the desired value by
\* value or text when there is one; else the first option whose text
\* contains it; else it changes nothing and reports failure.
C17_SelectExactFirst ==
    fnOut # None =>
       IF ExactOpts # {}
       THEN /\ fnOut.ok
            /\ \E i \in ExactOpts : fnOut.dom.value[1] = fnIn.opts[i].value
       ELSE IF SubstrOpts # {}
       THEN /\ fnOut.ok
            /\ \E i \in SubstrOpts :
                  /\ \A j \in SubstrOpts : i <= j
                  /\ fnOut.dom.value[1] = fnIn.opts[i].value
       ELSE /\ ~fnOut.ok
            /\ fnOut.dom = freshDom(<<SelectNode(fnIn.opts)>>)

\* Select, Female, Male written with " MALE ": Female contains the value
\* and comes first, Male equals it and is the one selected
C17_Witness ==
    /\ fnOut # None
    /\ Len(fnIn.opts) = 3
    /\ fnIn.opts[2].nt = <<"f","e","m","a","l","e">>
    /\ fnIn.opts[3].nt = <<"m","a","l","e">>
    /\ fnIn.opts[1].nv = <<>>
    /\ fnIn.want.n = <<"m","a","l","e">>
    /\ fnOut.ok
    /\ fnOut.dom.value[1] = <<"m">>

(***************************************************************************)
(* The writer and the fill pass on checkbox and radio groups: a component  *)
(* with an open shadow root (node 1) and a group named gender of at most   *)
(* MaxMembers members (nodes 2, 3, ...), each shown in the document,       *)
(* hidden in the document, or shown inside the component's shadow tree.    *)
(* Labels and desired values carry a note of their normalized texts.       *)
(***************************************************************************)
MaxMembers == 2

MemberPool ==
    { [label |-> l, checked0 |-> c, place |-> p] :
      l \in { [text |-> <<"F","e","m","a","l","e">>, nl |-> <<"f","e","m","a","l","e">>],
              [text |-> <<" ","M","a","l","e">>, nl |-> <<"m","a","l","e">>] },
      c \in BOOLEAN,
      p \in {"shown", "hidden", "shadow"} }

WantPool ==
    { [v |-> Str(<<"F","e","m","a","l","e">>), n |-> { <<"f","e","m","a","l","e">> }],
      [v |-> Str(<<"M","A","L","E"," ">>), n |-> { <<"m","a","l","e">> }],
      [v |-> Arr(<< Str(<<"M","a","l","e">>), Str(<<"x">>) >>),
       n |-> { <<"m","a","l","e">>, <<"x">> }] }

GroupNode(kind, m) ==
    [Node0 EXCEPT !.tag = "input", !.type = kind,
                  !.name = <<"g","e","n","d","e","r">>,
                  !.parentLbl = m.label.text, !.value0 = <<"o","n">>,
                  !.checked0 = m.checked0,
                  !.visible = (m.place # "hidden"),
                  !.scope = IF m.place = "shadow" THEN 1 ELSE 0]

GroupNodes(kind, ms) ==
    << [Node0 EXCEPT !.shadow = "open"] >> \o [i \in DOMAIN ms |-> GroupNode(kind, ms[i])]

\* a radio button group has at most one button checked
RadioOK(kind, ms) ==
    kind = "radio" =>
       \A i, j \in DOMAIN ms :
          (ms[i].checked0 /\ ms[j].checked0 /\ (ms[i].place = "shadow") = (ms[j].place = "shadow"))
          => i = j

GroupInputs ==
    { [kind |-> k, ms |-> ms, want |-> w] :
      k \in {"checkbox", "radio"},
      ms \in UNION { [1..n -> MemberPool] : n \in 1..MaxMembers },
      w \in WantPool }

InitGroup ==
    /\ EngineOff
    /\ fnIn \in { i \in GroupInputs : RadioOK(i.kind, i.ms) }
    /\ fnOut = None

GroupDom == freshDom(GroupNodes(fnIn.kind, fnIn.ms))

\* setValue(el, value) for a member el that fill would hand to it
WriteGroup ==
    /\ fnOut = None
    /\ \E el \in 2..(Len(fnIn.ms) + 1) :
          /\ fnIn.ms[el - 1].place # "hidden"
          /\ LET r == setValue(GroupDom, el, fnIn.want.v)
             IN  fnOut' = [op |-> "write", el |-> el, dom |-> r.dom, ok |-> r.ok]
    /\ UNCHANGED << engine, fnIn >>

\* fill(profile) for a profile with the desired value as its gender
FillGroup ==
    /\ fnOut = None
    /\ LET r == fill(GroupDom, Obj([demographics |-> Obj([gender |-> fnIn.want.v])]))
       IN  fnOut' = [op |-> "fill", el |-> 0, dom |-> r.dom, ok |-> r.n > 0]
    /\ UNCHANGED << engine, fnIn >>

NextGroup == WriteGroup \/ FillGroup

SpecGroup == InitGroup /\ [][NextGroup]_vars

\* the members of the group of el: the inputs of its name in its tree
GroupMembers(el) ==
    { m \in 2..(Len(fnIn.ms) + 1) :
        (fnIn.ms[m - 1].place = "shadow") = (fnIn.ms[el - 1].place = "shadow") }

\* the noted label of m equals or contains one of the noted desired values
Desired(m) == \E w \in fnIn.want.n : includes(fnIn.ms[m - 1].label.nl, w)

\* C18: after a write to a checkbox, every member of its group is checked
\* exactly if its label equals or contains a desired value, and a member
\* that was already so has not been clicked.
C18_CheckboxGroup ==
    (fnOut # None /\ fnOut.op = "write" /\ fnIn.kind = "checkbox") =>
       \A m \in GroupMembers(fnOut.el) :
          /\ fnOut.dom.checked[m] = Desired(m)
          /\ fnIn.ms[m - 1].checked0 = Desired(m) => ~fnOut.dom.userEdited[m]

\* C18 for the checkboxes of the document's own tree only
C18_LightTreeOnly ==
    (/\ fnOut # None /\ fnOut.op = "write" /\ fnIn.kind = "checkbox"
     /\ fnIn.ms[fnOut.el - 1].place # "shadow") =>
       \A m \in GroupMembers(fnOut.el) :
          /\ fnOut.dom.checked[m] = Desired(m)
          /\ fnIn.ms[m - 1].checked0 = Desired(m) => ~fnOut.dom.userEdited[m]

\* C19: a write to a checkbox or radio reports success exactly if it
\* changed the checked state of some element.
C19_SuccessIffChanged ==
    (fnOut # None /\ fnOut.op = "write") =>
       (fnOut.ok <=> fnOut.dom.checked # GroupDom.checked)

\* C20: a fill pass leaves the value and the checked state of every element
\* that is not visible as they were.
C20_HiddenUntouched ==
    (fnOut # None /\ fnOut.op = "fill") =>
       \A m \in 2..(Len(fnIn.ms) + 1) :
          fnIn.ms[m - 1].place = "hidden" =>
             /\ fnOut.dom.checked[m] = GroupDom.checked[m]
             /\ fnOut.dom.value[m] = GroupDom.value[m]

\* C21: every fill pass resolves its values from the profile of the latest
\* FILL_EXECUTE request received before it runs.
C21_LatestProfile ==
    [][IsPass => pass'.profile = closures[nReq].profile]_vars

\* what a message that is no fill request must leave alone
EngineState ==
    << attached, value, checked, userEdited, autofilled, outline, observer,
       timers, closures, nextTimer, sent, pass, nPasses >>

\* C22: as long as no FILL_EXECUTE has been received, no pass has run,
\* nothing is scheduled, highlighted or sent, and only a person's edits
\* change an element; and receiving a message of another type changes no
\* element, flag, timer, observer or message sent.
C22_OnlyFillExecute ==
    [][ /\ nReq' = 0 =>
             /\ nPasses' = 0 /\ sent' = <<>> /\ timers' = <<>> /\ observer' = 0
             /\ outline' = outline
             /\ nEdits' = nEdits =>
                   value' = value /\ checked' = checked /\ userEdited' = userEdited
        /\ \A msg \in Messages :
              (msg.type # "FILL_EXECUTE" /\ OnMessage(msg)) => UNCHANGED EngineState ]_vars

\* FILL_UNDO or FILL_REQUEST has come, and a batch of added nodes, with no
\* FILL_EXECUTE so far: nothing scheduled, nothing run
C22_Witness ==
    /\ nReq = 0
    /\ nOther > 0
    /\ lastBatch = "add"
    /\ timers = <<>>
    /\ observer = 0
    /\ nPasses = 0

\* C23: whenever a fill is scheduled, by a request or by a batch of added
\* nodes, the scheduled fills get run and the latest pass is one that
\* completed and sent FILL_DONE.
C23_FillDoneFollows ==
    (timers # <<>>) ~> (timers = <<>> /\ pass # None /\ ~pass.threw)

\* C23 without the completion: whenever a fill is scheduled, the scheduled
\* fills get run
C23_PassFollows ==
    (timers # <<>>) ~> (timers = <<>> /\ pass # None)

====
